---- MODULE Spec2Model ----
(***************************************************************************)
(* Property-scoped context resolution, ownership guard and the tenant-unit *)
(* occupancy ledger of the property-management backend (sub-domain and     *)
(* main-domain Flask services).                                            *)
(*                                                                         *)
(* Three specifications share the variables:                              *)
(*   Spec      - the ledger handlers, one request at a time;              *)
(*   ConcSpec  - two requests whose SQL statements interleave;            *)
(*   GuardSpec - the resolver / guard of the read handlers, applied to    *)
(*               every request drawn from the bounded signal sets.        *)
(***************************************************************************)
EXTENDS Integers, FiniteSets, Sequences, TLC

VARIABLES tenants, tenant_units, units, today, ticks, served,
          next_tenant_id, next_tu_id, last,
          procs, req, resp, tasks, maintenance_requests

vars == <<tenants, tenant_units, units, today, ticks, served,
          next_tenant_id, next_tu_id, last, procs, req, resp,
          tasks, maintenance_requests>>

workVars == <<tasks, maintenance_requests>>

ledgerVars == <<tenants, tenant_units, units, today, ticks, served,
                next_tenant_id, next_tu_id, last>>

----------------------------------------------------------------------------
(* Bounds *)

MaxTenants == 2
MaxTU == 3
MaxTicks == 1
(* requests served in one behaviour *)
MaxServed == 3

(* SQL NULL / Python None / absent value; ids and day numbers start at 1 *)
NULL == 0

(* A key that the request body does not carry *)
ABSENT == -1

(* timedelta(days=30): the default rental length *)
LeaseDays == 30

----------------------------------------------------------------------------
(* Reference data: the property and unit registries *)

PropertyIds == {1, 2}
PropertyInputs == {1, 2, 3}
Managers == {"m1", "m2"}
Callers == {"m1", "m2", "t1"}
PropOwner == (1 :> "m1") @@ (2 :> "m2")

UnitIds == {1, 2, 3}
UnitInputs == {1, 2, 3, 4}
UnitProperty == (1 :> 1) @@ (2 :> 1) @@ (3 :> 2)

is_property_manager(c) == c \in Managers

VacantStatuses == {"vacant", "available"}

----------------------------------------------------------------------------
(* The SQL predicate the handlers use to find an "active" tenant_units row:
   (move_in_date IS NOT NULL AND move_out_date IS NOT NULL
    AND move_out_date >= CURDATE()) OR (is_active = TRUE) *)
CodeActive(tu, d) ==
    \/ (tu.move_in_date # NULL /\ tu.move_out_date # NULL /\ tu.move_out_date >= d)
    \/ tu.is_active = TRUE

(* The INSERT with property_id taken from the tenant's stored property
   instead of the unit's *)
NewRowTenantProperty(id, t, u, p, d) ==
    [id |-> id, tenant_id |-> t, unit_id |-> u,
     property_id |-> IF t \in DOMAIN tenants THEN tenants[t] ELSE p,
     move_in_date |-> d, move_out_date |-> d + LeaseDays,
     is_active |-> TRUE, rent_status |-> "null", monthly_rent |-> NULL]

(* The raw INSERT INTO tenant_units of create_tenant / update_tenant:
   monthly_rent and rent_status are not among the inserted columns. *)
NewRow(id, t, u, p, d) ==
    [id |-> id, tenant_id |-> t, unit_id |-> u, property_id |-> p,
     move_in_date |-> d, move_out_date |-> d + LeaseDays,
     is_active |-> TRUE, rent_status |-> "null", monthly_rent |-> NULL]

(* UPDATE tenant_units SET move_out_date = CURDATE(), is_active = FALSE
   WHERE id = :tu_id *)
EndRow(rows, id, d) ==
    {IF r.id = id THEN [r EXCEPT !.move_out_date = d, !.is_active = FALSE] ELSE r
        : r \in rows}

(* SELECT ... FROM tenant_units WHERE tenant_id = :tenant_id AND <active> *)
ActiveOfTenant(rows, t, d) == {r \in rows : r.tenant_id = t /\ CodeActive(r, d)}

(* SELECT ... FROM tenant_units WHERE unit_id = :unit_id AND <active> *)
ActiveOfUnit(rows, u, d) == {r \in rows : r.unit_id = u /\ CodeActive(r, d)}

(* Tenant.current_unit (models/tenant.py 104-130): the unit of one of the
   tenant's rows the SELECT ... LIMIT 1 can return, NULL when there is none *)
current_unit(rows, t, d) ==
    IF ActiveOfTenant(rows, t, d) = {} THEN {NULL}
    ELSE {r.unit_id : r \in ActiveOfTenant(rows, t, d)}

(* ORDER BY created_at DESC LIMIT 1: rows are created in id order *)
MostRecent(rows) == {r \in rows : \A x \in rows : x.id <= r.id}

(* Tenant.current_rent (models/tenant.py 132-207): the first of the three
   queries that returns a row decides; the third has no date condition *)
current_rent(rows, t, d) ==
    LET mine == {r \in rows : r.tenant_id = t}
        q1 == {r \in mine : \/ r.move_out_date = NULL
                            \/ r.move_out_date >= d
                            \/ r.is_active = TRUE}
        q2 == {r \in mine : r.move_out_date = NULL \/ r.move_out_date >= d}
    IN IF q1 # {} THEN MostRecent(q1)
       ELSE IF q2 # {} THEN MostRecent(q2)
       ELSE MostRecent(mine)

(* What the last request did: the handler, the HTTP status and the 'code'
   field of its JSON body, and the tenant / tenant_units row / unit it acted
   on (for an ended assignment: the row ended and the unit it was on). *)
Resp(op, status, code, tenant, tu, unit) ==
    [op |-> op, status |-> status, code |-> code,
     tenant |-> tenant, tu |-> tu, unit |-> unit]

----------------------------------------------------------------------------
Init ==
    /\ tenants = <<>>
    /\ tenant_units = {}
    /\ units = [u \in UnitIds |-> "vacant"]
    /\ today = 1
    /\ ticks = 0
    /\ served = 0
    /\ next_tenant_id = 1
    /\ next_tu_id = 1
    /\ last = Resp("none", 0, "", NULL, NULL, NULL)
    /\ procs = <<>>
    /\ tasks = <<>>
    /\ maintenance_requests = <<>>
    /\ req = <<>>
    /\ resp = <<>>

Tick ==
    /\ ticks < MaxTicks
    /\ \E d \in {1, LeaseDays + 1} : today' = today + d
    /\ ticks' = ticks + 1
    /\ UNCHANGED <<workVars, tenants, tenant_units, units, next_tenant_id, next_tu_id,
                   served, last, procs, req, resp>>

(* One more request served, within the bound *)
Serve == served < MaxServed /\ served' = served + 1

(* Response only: the handler returned before any committed write *)
Reject(op, status, code) ==
    /\ last' = Resp(op, status, code, NULL, NULL, NULL)
    /\ UNCHANGED <<workVars, tenants, tenant_units, units, next_tenant_id, next_tu_id>>

(* create_tenant: guard (lines 365-441), tenant insert (443-452), unit
   assignment (454-566), commit (568).  pid is the property id the handler
   obtained for the request (NULL when none), uid the body's unit_id. *)
create_tenant(c, pid, uid) ==
    /\ next_tenant_id <= MaxTenants
    /\ IF is_property_manager(c) /\ pid = NULL
         THEN Reject("create_tenant", 400, "PROPERTY_CONTEXT_REQUIRED")
       ELSE IF is_property_manager(c) /\ pid \notin PropertyIds
         THEN Reject("create_tenant", 404, "")
       ELSE IF is_property_manager(c) /\ PropOwner[pid] # c
         THEN Reject("create_tenant", 403, "PROPERTY_ACCESS_DENIED")
       ELSE IF pid = NULL
         THEN Reject("create_tenant", 400, "")
       ELSE IF pid \notin PropertyIds
         THEN Reject("create_tenant", 404, "")
       ELSE IF uid = NULL
         THEN /\ tenants' = tenants @@ (next_tenant_id :> pid)
              /\ next_tenant_id' = next_tenant_id + 1
              /\ last' = Resp("create_tenant", 201, "", next_tenant_id, NULL, NULL)
              /\ UNCHANGED <<workVars, tenant_units, units, next_tu_id>>
       ELSE IF uid \notin UnitIds
         THEN Reject("create_tenant", 404, "")
       ELSE IF UnitProperty[uid] # pid
         THEN Reject("create_tenant", 400, "")
       ELSE IF ActiveOfUnit(tenant_units, uid, today) # {}
         THEN Reject("create_tenant", 400, "")
       ELSE /\ next_tu_id <= MaxTU
            /\ tenants' = tenants @@ (next_tenant_id :> pid)
            /\ next_tenant_id' = next_tenant_id + 1
            /\ tenant_units' = tenant_units \cup
                 {NewRow(next_tu_id, next_tenant_id, uid, UnitProperty[uid], today)}
            /\ next_tu_id' = next_tu_id + 1
            /\ units' = [units EXCEPT ![uid] = "occupied"]
            /\ last' = Resp("create_tenant", 201, "", next_tenant_id, next_tu_id, uid)
    /\ Serve
    /\ UNCHANGED <<workVars, today, ticks>>

(* POST /tenants/ as one request of the ledger *)
CreateTenant(c, pid, uid) ==
    /\ create_tenant(c, pid, uid)
    /\ UNCHANGED <<workVars, procs, req, resp>>

(* update_tenant, unit_id given (lines 780-929): the new assignment of an
   existing tenant.  ex is the row the "existing active TenantUnit" SELECT
   ... LIMIT 1 returned (or none). *)
AssignUnit(t, uid, prop) ==
    IF uid \notin UnitIds
      THEN Reject("update_tenant", 404, "")
    ELSE IF UnitProperty[uid] # prop
      THEN Reject("update_tenant", 400, "")
    ELSE IF ActiveOfTenant(tenant_units, t, today) = {}
      THEN IF \E r \in ActiveOfUnit(tenant_units, uid, today) : r.tenant_id # t
             THEN Reject("update_tenant", 400, "")
           ELSE /\ next_tu_id <= MaxTU
                /\ tenant_units' = tenant_units \cup
                     {NewRow(next_tu_id, t, uid, UnitProperty[uid], today)}
                /\ next_tu_id' = next_tu_id + 1
                /\ units' = [units EXCEPT ![uid] = "occupied"]
                /\ tenants' = [tenants EXCEPT ![t] = prop]
                /\ last' = Resp("assign", 200, "", t, next_tu_id, uid)
                /\ UNCHANGED next_tenant_id
    ELSE \E ex \in ActiveOfTenant(tenant_units, t, today) :
           IF ex.unit_id = uid
             THEN /\ tenants' = [tenants EXCEPT ![t] = prop]
                  /\ last' = Resp("update_tenant", 200, "", t, NULL, NULL)
                  /\ UNCHANGED <<workVars, tenant_units, units, next_tenant_id, next_tu_id>>
           ELSE LET ended == EndRow(tenant_units, ex.id, today)
                    vacate == ActiveOfUnit(ended, ex.unit_id, today) = {}
                    units1 == IF vacate THEN [units EXCEPT ![ex.unit_id] = "vacant"]
                              ELSE units
                IN /\ next_tu_id <= MaxTU
                   /\ tenant_units' = ended \cup
                        {NewRow(next_tu_id, t, uid, UnitProperty[uid], today)}
                   /\ next_tu_id' = next_tu_id + 1
                   /\ units' = [units1 EXCEPT ![uid] = "occupied"]
                   /\ tenants' = [tenants EXCEPT ![t] = prop]
                   /\ last' = Resp("reassign", 200, "", t, ex.id, ex.unit_id)
                   /\ UNCHANGED next_tenant_id

(* update_tenant, unit_id explicitly null (lines 930-982) *)
UnassignUnit(t, prop) ==
    IF ActiveOfTenant(tenant_units, t, today) = {}
      THEN /\ tenants' = [tenants EXCEPT ![t] = prop]
           /\ last' = Resp("update_tenant", 200, "", t, NULL, NULL)
           /\ UNCHANGED <<workVars, tenant_units, units, next_tenant_id, next_tu_id>>
    ELSE \E ex \in ActiveOfTenant(tenant_units, t, today) :
           LET ended == EndRow(tenant_units, ex.id, today)
               vacate == ActiveOfUnit(ended, ex.unit_id, today) = {}
           IN /\ tenant_units' = ended
              /\ units' = IF vacate THEN [units EXCEPT ![ex.unit_id] = "vacant"]
                          ELSE units
              /\ tenants' = [tenants EXCEPT ![t] = prop]
              /\ last' = Resp("unassign", 200, "", t, ex.id, ex.unit_id)
              /\ UNCHANGED <<workVars, next_tenant_id, next_tu_id>>

(* update_tenant (lines 665-1012).  rp is the property id the handler
   obtained for the request, dp the body's property_id (NULL when absent),
   du the body's unit_id: ABSENT (no such key), NULL or a unit id. *)
update_tenant(c, rp, t, dp, du) ==
    /\ IF is_property_manager(c) /\ rp \in PropertyIds /\ PropOwner[rp] # c
         THEN Reject("update_tenant", 403, "PROPERTY_ACCESS_DENIED")
       ELSE IF t \notin DOMAIN tenants
         THEN Reject("update_tenant", 404, "")
       ELSE IF is_property_manager(c) /\ PropOwner[tenants[t]] # c
         THEN Reject("update_tenant", 403, "PROPERTY_ACCESS_DENIED")
       ELSE IF dp # NULL /\ dp \notin PropertyIds
         THEN Reject("update_tenant", 404, "")
       ELSE LET prop == IF dp # NULL THEN dp ELSE tenants[t]
            IN IF du = ABSENT
                 THEN /\ tenants' = [tenants EXCEPT ![t] = prop]
                      /\ last' = Resp("update_tenant", 200, "", t, NULL, NULL)
                      /\ UNCHANGED <<workVars, tenant_units, units, next_tenant_id, next_tu_id>>
               ELSE IF du = NULL
                 THEN UnassignUnit(t, prop)
               ELSE AssignUnit(t, du, prop)
    /\ Serve
    /\ UNCHANGED <<workVars, today, ticks>>

(* PUT /tenants/<tenant_id> as one request of the ledger *)
UpdateTenant(c, rp, t, dp, du) ==
    /\ update_tenant(c, rp, t, dp, du)
    /\ UNCHANGED <<procs, req, resp>>

(* TenantUnit.terminate_rent (models/tenant.py 562-577) *)
TerminateRent(id) ==
    /\ \E r \in tenant_units :
         /\ r.id = id
         /\ tenant_units' = (tenant_units \ {r}) \cup
              {[r EXCEPT !.rent_status = "terminated", !.is_active = FALSE,
                         !.move_out_date = today]}
         /\ units' = [units EXCEPT ![r.unit_id] = "available"]
         /\ last' = Resp("terminate", 0, "", r.tenant_id, r.id, r.unit_id)
    /\ Serve
    /\ UNCHANGED <<workVars, tenants, today, ticks, next_tenant_id, next_tu_id,
                   procs, req, resp>>

(* TenantUnit.renew_rent (models/tenant.py 579-592) *)
RenewRent(id, new_end_date, new_monthly_rent) ==
    /\ \E r \in tenant_units :
         /\ r.id = id
         /\ tenant_units' = (tenant_units \ {r}) \cup
              {[r EXCEPT !.move_out_date = new_end_date,
                         !.monthly_rent = IF new_monthly_rent # NULL
                                          THEN new_monthly_rent ELSE @,
                         !.rent_status = "active"]}
         /\ last' = Resp("renew", 0, "", r.tenant_id, r.id, r.unit_id)
    /\ Serve
    /\ UNCHANGED <<workVars, tenants, units, today, ticks, next_tenant_id, next_tu_id,
                   procs, req, resp>>

(* delete_tenant (lines 1049-1098): db.session.delete(tenant) also deletes
   the tenant's tenant_units rows, through the relationship
   Tenant.tenant_units with cascade='all, delete-orphan'; no unit status is
   touched. *)
DeleteTenant(c, t) ==
    /\ IF t \notin DOMAIN tenants
         THEN Reject("delete_tenant", 404, "")
       ELSE IF is_property_manager(c) /\ PropOwner[tenants[t]] # c
         THEN Reject("delete_tenant", 403, "PROPERTY_ACCESS_DENIED")
       ELSE /\ tenants' = [x \in DOMAIN tenants \ {t} |-> tenants[x]]
            /\ tenant_units' = {r \in tenant_units : r.tenant_id # t}
            /\ last' = Resp("delete_tenant", 200, "", t, NULL, NULL)
            /\ UNCHANGED <<workVars, units, next_tenant_id, next_tu_id>>
    /\ Serve
    /\ UNCHANGED <<workVars, today, ticks, procs, req, resp>>

UnitArgs == {ABSENT, NULL} \cup UnitInputs

Next ==
    \/ Tick
    \/ \E c \in Callers, pid \in PropertyInputs \cup {NULL},
          uid \in UnitInputs \cup {NULL} : CreateTenant(c, pid, uid)
    \/ \E c \in Callers, rp \in PropertyInputs \cup {NULL}, t \in 1..MaxTenants,
          dp \in PropertyInputs \cup {NULL}, du \in UnitArgs :
            UpdateTenant(c, rp, t, dp, du)
    \/ \E id \in 1..MaxTU : TerminateRent(id)
    \/ \E c \in Callers, t \in 1..MaxTenants : DeleteTenant(c, t)
    \/ \E id \in 1..MaxTU, e \in {today, today + LeaseDays}, m \in {NULL, 900} :
            RenewRent(id, e, m)

Spec == Init /\ [][Next]_vars

----------------------------------------------------------------------------
(* Two requests in flight: every SQL statement of a handler is one step.
   Each request runs in its own transaction (db.session): its writes are
   buffered in wrows / wunits and applied by the commit; a read sees the
   latest committed data overlaid with the transaction's own writes, which
   is the most recent data any isolation level shows a non-locking SELECT.
   UPDATE takes the row lock until the commit; INSERT never waits (the index
   idx_unit_active on (unit_id, is_active) is not unique). *)

NumProcs == 2
ProcIds == 1..NumProcs

IdleProc ==
    [pc |-> "idle", op |-> "none", tenant |-> NULL, unit |-> NULL,
     ex |-> NULL, exunit |-> NULL, loaded |-> "", status |-> 0,
     wrows |-> {}, wunits |-> <<>>]

ViewRows(p) ==
    {r \in tenant_units : ~ \E w \in procs[p].wrows : w.id = r.id}
        \cup procs[p].wrows

ViewUnits(p) ==
    [u \in UnitIds |-> IF u \in DOMAIN procs[p].wunits
                       THEN procs[p].wunits[u] ELSE units[u]]

RowLocked(p, id) ==
    \E q \in ProcIds \ {p} : \E w \in procs[q].wrows : w.id = id

UnitLocked(p, u) ==
    \E q \in ProcIds \ {p} : u \in DOMAIN procs[q].wunits

Committed(id) == CHOOSE r \in tenant_units : r.id = id

(* Ledger states the serial handlers leave behind, from which the two
   requests start: the empty ledger; tenant 1 on unit 1; tenant 1 on unit 1
   terminated the day before; tenants 1 and 2 on units 1 and 2. *)
Row1 == NewRow(1, 1, 1, 1, 1)
Row2 == NewRow(2, 2, 2, 1, 1)
Row1Terminated ==
    [Row1 EXCEPT !.rent_status = "terminated", !.is_active = FALSE,
                 !.move_out_date = 1]

Ledger(i) ==
    IF i = 0
      THEN [tenants |-> <<>>, rows |-> {}, units |-> [u \in UnitIds |-> "vacant"],
            today |-> 1, ticks |-> 0, nt |-> 1, ntu |-> 1]
    ELSE IF i = 1
      THEN [tenants |-> (1 :> 1), rows |-> {Row1},
            units |-> [u \in UnitIds |-> IF u = 1 THEN "occupied" ELSE "vacant"],
            today |-> 1, ticks |-> 0, nt |-> 2, ntu |-> 2]
    ELSE IF i = 2
      THEN [tenants |-> (1 :> 1), rows |-> {Row1Terminated},
            units |-> [u \in UnitIds |-> IF u = 1 THEN "available" ELSE "vacant"],
            today |-> 2, ticks |-> 1, nt |-> 2, ntu |-> 2]
    ELSE [tenants |-> (1 :> 1) @@ (2 :> 1), rows |-> {Row1, Row2},
          units |-> [u \in UnitIds |-> IF u \in {1, 2} THEN "occupied" ELSE "vacant"],
          today |-> 1, ticks |-> 0, nt |-> 3, ntu |-> 3]

LedgerIs(i) ==
    /\ tenants = Ledger(i).tenants
    /\ tenant_units = Ledger(i).rows
    /\ units = Ledger(i).units
    /\ today = Ledger(i).today
    /\ ticks = Ledger(i).ticks
    /\ next_tenant_id = Ledger(i).nt
    /\ next_tu_id = Ledger(i).ntu

ConcInit ==
    /\ \E i \in 0..3 : LedgerIs(i)
    /\ served = 0
    /\ last = Resp("none", 0, "", NULL, NULL, NULL)
    /\ procs = [p \in ProcIds |-> IdleProc]
    /\ tasks = <<>>
    /\ maintenance_requests = <<>>
    /\ req = <<>>
    /\ resp = <<>>

Step(p, f) ==
    /\ procs' = [procs EXCEPT ![p] = f]
    /\ UNCHANGED <<workVars, today, ticks, served, last, req, resp>>

(* create_tenant by the owner of property 1: the tenant row is flushed
   (line 452) and the unit looked up (462-475) *)
ConcStartCreate(p, uid) ==
    /\ procs[p].pc = "idle"
    /\ uid \in UnitIds /\ UnitProperty[uid] = 1
    /\ next_tenant_id' = next_tenant_id + 1
    /\ Step(p, [procs[p] EXCEPT !.pc = "ct_check", !.op = "create_tenant",
                                !.tenant = next_tenant_id, !.unit = uid])
    /\ UNCHANGED <<workVars, tenants, tenant_units, units, next_tu_id>>

(* create_tenant 477-494: the vacancy check *)
ConcCheck(p) ==
    /\ procs[p].pc = "ct_check"
    /\ IF ActiveOfUnit(ViewRows(p), procs[p].unit, today) # {}
         THEN Step(p, [procs[p] EXCEPT !.pc = "done", !.status = 400])
         ELSE Step(p, [procs[p] EXCEPT !.pc = "insert"])
    /\ UNCHANGED <<workVars, tenants, tenant_units, units, next_tenant_id, next_tu_id>>

(* create_tenant 515-545 / update_tenant 878-908: INSERT INTO tenant_units *)
ConcInsert(p) ==
    /\ procs[p].pc = "insert"
    /\ next_tu_id' = next_tu_id + 1
    /\ Step(p, [procs[p] EXCEPT !.pc = "status",
           !.wrows = @ \cup {NewRow(next_tu_id, procs[p].tenant, procs[p].unit,
                                    UnitProperty[procs[p].unit], today)}])
    /\ UNCHANGED <<workVars, tenants, tenant_units, units, next_tenant_id>>

(* create_tenant 550-557 / update_tenant 913-920: UPDATE units SET status =
   'occupied' *)
ConcStatus(p) ==
    /\ procs[p].pc = "status"
    /\ ~ UnitLocked(p, procs[p].unit)
    /\ Step(p, [procs[p] EXCEPT !.pc = "commit",
           !.wunits = (procs[p].unit :> "occupied") @@ @])
    /\ UNCHANGED <<workVars, tenants, tenant_units, units, next_tenant_id, next_tu_id>>

(* db.session.commit(): create_tenant 568, update_tenant 984,
   terminate_rent 577 *)
ConcCommit(p) ==
    /\ procs[p].pc = "commit"
    /\ tenant_units' = ViewRows(p)
    /\ units' = ViewUnits(p)
    /\ tenants' = IF procs[p].op = "create_tenant"
                  THEN tenants @@ (procs[p].tenant :> 1) ELSE tenants
    /\ Step(p, [procs[p] EXCEPT !.pc = "done", !.wrows = {}, !.wunits = <<>>,
           !.status = IF procs[p].op = "create_tenant" THEN 201 ELSE 200])
    /\ UNCHANGED <<workVars, next_tenant_id, next_tu_id>>

(* update_tenant of an existing tenant by the owner of its property, with
   unit_id = du (NULL: remove the tenant from its unit) *)
ConcStartUpdate(p, t, du) ==
    /\ procs[p].pc = "idle"
    /\ t \in DOMAIN tenants
    /\ du \in {NULL} \cup {u \in UnitIds : UnitProperty[u] = tenants[t]}
    /\ Step(p, [procs[p] EXCEPT !.pc = "ut_find", !.op = "update_tenant",
                                !.tenant = t, !.unit = du])
    /\ UNCHANGED <<workVars, tenants, tenant_units, units, next_tenant_id, next_tu_id>>

(* update_tenant 802-815 / 935-948: the tenant's existing active row *)
ConcFind(p) ==
    /\ procs[p].pc = "ut_find"
    /\ LET found == ActiveOfTenant(ViewRows(p), procs[p].tenant, today)
       IN IF found = {}
            THEN Step(p, [procs[p] EXCEPT
                    !.pc = IF procs[p].unit = NULL THEN "commit" ELSE "ut_occupied"])
          ELSE \E e \in found :
                 Step(p, [procs[p] EXCEPT !.ex = e.id, !.exunit = e.unit_id,
                    !.pc = IF e.unit_id = procs[p].unit THEN "commit" ELSE "ut_end"])
    /\ UNCHANGED <<workVars, tenants, tenant_units, units, next_tenant_id, next_tu_id>>

(* update_tenant 849-867: the occupancy check of the new unit, made only
   when the tenant has no existing active row *)
ConcOccupied(p) ==
    /\ procs[p].pc = "ut_occupied"
    /\ IF \E r \in ActiveOfUnit(ViewRows(p), procs[p].unit, today) :
             r.tenant_id # procs[p].tenant
         THEN Step(p, [procs[p] EXCEPT !.pc = "done", !.status = 400])
         ELSE Step(p, [procs[p] EXCEPT !.pc = "insert"])
    /\ UNCHANGED <<workVars, tenants, tenant_units, units, next_tenant_id, next_tu_id>>

(* update_tenant 822-828 / 953-959: UPDATE tenant_units SET move_out_date =
   CURDATE(), is_active = FALSE WHERE id = :tu_id *)
ConcEndOld(p) ==
    /\ procs[p].pc = "ut_end"
    /\ ~ RowLocked(p, procs[p].ex)
    /\ Step(p, [procs[p] EXCEPT !.pc = "ut_count",
           !.wrows = @ \cup EndRow({Committed(procs[p].ex)}, procs[p].ex, today)])
    /\ UNCHANGED <<workVars, tenants, tenant_units, units, next_tenant_id, next_tu_id>>

AfterOld(p) == IF procs[p].unit = NULL THEN "commit" ELSE "insert"

(* update_tenant 831-844 / 962-975: SELECT COUNT of the old unit's
   active rows *)
ConcCountOld(p) ==
    /\ procs[p].pc = "ut_count"
    /\ IF ActiveOfUnit(ViewRows(p), procs[p].exunit, today) = {}
         THEN Step(p, [procs[p] EXCEPT !.pc = "ut_vacate"])
         ELSE Step(p, [procs[p] EXCEPT !.pc = AfterOld(p)])
    /\ UNCHANGED <<workVars, tenants, tenant_units, units, next_tenant_id, next_tu_id>>

(* update_tenant 845-847 / 976-978: UPDATE units SET status = 'vacant' *)
ConcVacate(p) ==
    /\ procs[p].pc = "ut_vacate"
    /\ ~ UnitLocked(p, procs[p].exunit)
    /\ Step(p, [procs[p] EXCEPT !.pc = AfterOld(p),
           !.wunits = (procs[p].exunit :> "vacant") @@ @])
    /\ UNCHANGED <<workVars, tenants, tenant_units, units, next_tenant_id, next_tu_id>>

(* terminate_rent on a loaded TenantUnit *)
ConcStartTerminate(p, id) ==
    /\ procs[p].pc = "idle"
    /\ \E r \in tenant_units :
         /\ r.id = id
         /\ Step(p, [procs[p] EXCEPT !.pc = "tr_load", !.op = "terminate_rent",
                                     !.tenant = r.tenant_id, !.ex = r.id,
                                     !.exunit = r.unit_id])
    /\ UNCHANGED <<workVars, tenants, tenant_units, units, next_tenant_id, next_tu_id>>

(* terminate_rent 573: self.unit is loaded *)
ConcTermLoad(p) ==
    /\ procs[p].pc = "tr_load"
    /\ Step(p, [procs[p] EXCEPT !.pc = "tr_row",
                                !.loaded = ViewUnits(p)[procs[p].exunit]])
    /\ UNCHANGED <<workVars, tenants, tenant_units, units, next_tenant_id, next_tu_id>>

(* terminate_rent 564-570, flushed by the commit: UPDATE tenant_units *)
ConcTermRow(p) ==
    /\ procs[p].pc = "tr_row"
    /\ ~ RowLocked(p, procs[p].ex)
    /\ Step(p, [procs[p] EXCEPT !.pc = "tr_unit",
           !.wrows = @ \cup {[Committed(procs[p].ex) EXCEPT
                                !.rent_status = "terminated", !.is_active = FALSE,
                                !.move_out_date = today]}])
    /\ UNCHANGED <<workVars, tenants, tenant_units, units, next_tenant_id, next_tu_id>>

(* terminate_rent 575, flushed by the commit: UPDATE units SET status =
   'available', emitted when the loaded status differs *)
ConcTermUnit(p) ==
    /\ procs[p].pc = "tr_unit"
    /\ IF procs[p].loaded = "available"
         THEN Step(p, [procs[p] EXCEPT !.pc = "commit"])
         ELSE /\ ~ UnitLocked(p, procs[p].exunit)
              /\ Step(p, [procs[p] EXCEPT !.pc = "commit",
                     !.wunits = (procs[p].exunit :> "available") @@ @])
    /\ UNCHANGED <<workVars, tenants, tenant_units, units, next_tenant_id, next_tu_id>>

ConcNext ==
    \/ Tick
    \/ \E p \in ProcIds, u \in UnitIds : ConcStartCreate(p, u)
    \/ \E p \in ProcIds, t \in 1..MaxTenants, du \in {NULL} \cup UnitIds :
            ConcStartUpdate(p, t, du)
    \/ \E p \in ProcIds, id \in 1..MaxTU : ConcStartTerminate(p, id)
    \/ \E p \in ProcIds : ConcCheck(p)
    \/ \E p \in ProcIds : ConcInsert(p)
    \/ \E p \in ProcIds : ConcStatus(p)
    \/ \E p \in ProcIds : ConcCommit(p)
    \/ \E p \in ProcIds : ConcFind(p)
    \/ \E p \in ProcIds : ConcOccupied(p)
    \/ \E p \in ProcIds : ConcEndOld(p)
    \/ \E p \in ProcIds : ConcCountOld(p)
    \/ \E p \in ProcIds : ConcVacate(p)
    \/ \E p \in ProcIds : ConcTermLoad(p)
    \/ \E p \in ProcIds : ConcTermRow(p)
    \/ \E p \in ProcIds : ConcTermUnit(p)

ConcSpec == ConcInit /\ [][ConcNext]_vars

----------------------------------------------------------------------------
(* Property context and ownership checks of the read handlers.  One request
   is received and answered per behaviour; the handlers read the registries
   and never write. *)

(* A signal that is present but is not an integer, e.g. property_id=abc *)
BAD == -2

Tenants == {"t1"}
Staff == {"s1"}
Principals == Managers \cup Tenants \cup Staff

(* Tenant.property_id of the tenant profile of each tenant user *)
TenantProperty == ("t1" :> 1)

(* properties.portal_subdomain, title, building_name (lower-cased, trimmed) *)
PropNames ==
    (1 :> [portal_subdomain |-> "alpha", title |-> "shared", building_name |-> "tower"]) @@
    (2 :> [portal_subdomain |-> "beta", title |-> "shared", building_name |-> "alpha"])

(* maintenance_requests: the tenant user that filed it and, through its unit,
   the property it belongs to *)
RequestIds == {1, 2}
MaintRequests ==
    (1 :> [tenant |-> "t1", property_id |-> 1]) @@
    (2 :> [tenant |-> "t2", property_id |-> 2])

QueryVals == {NULL, 1, 2, 3, BAD}
HeaderVals == {NULL, 1, 2, BAD}
BodyVals == {NULL, 1, 2, BAD}
ClaimVals == {NULL, 1, 2}
OriginVals == {"", "alpha", "shared", "zz"}
PathVals == {1, 2, 3}

NoReq == [handler |-> "none", caller |-> "", query |-> NULL, header |-> NULL,
          body |-> NULL, claim |-> NULL, origin |-> "", path |-> NULL,
          fail |-> FALSE]
NoResp == [status |-> 0, code |-> "", property |-> NULL, scope |-> {}]

R(status, code, property, scope) ==
    [status |-> status, code |-> code, property |-> property, scope |-> scope]

(* request.args.get(name, type=int) / request.headers.get(name, type=int):
   None when the value is missing or does not convert *)
GetInt(v) == IF v = BAD THEN NULL ELSE v

(* SELECT id FROM properties WHERE LOWER(TRIM(COALESCE(col, ''))) = :subdomain
   LIMIT 1, with no ORDER BY: any one of the matching rows *)
MatchColumn(col, subdomain) ==
    {p \in PropertyIds : PropNames[p][col] = subdomain}

SubdomainLookup(subdomain) ==
    IF subdomain = "" THEN {NULL}
    ELSE IF MatchColumn("portal_subdomain", subdomain) # {}
         THEN MatchColumn("portal_subdomain", subdomain)
    ELSE IF MatchColumn("title", subdomain) # {}
         THEN MatchColumn("title", subdomain)
    ELSE IF MatchColumn("building_name", subdomain) # {}
         THEN MatchColumn("building_name", subdomain)
    ELSE {NULL}

(* analytics_routes.get_property_id_from_request(data): the set of values it
   can return; hasData is FALSE when the handler passes no body *)
AnalyticsResolve(r, hasData) ==
    IF GetInt(r.query) # NULL THEN {GetInt(r.query)}
    ELSE IF GetInt(r.header) # NULL THEN {GetInt(r.header)}
    ELSE IF r.claim # NULL THEN {r.claim}
    ELSE IF hasData /\ r.body # NULL /\ r.body # BAD THEN {r.body}
    ELSE SubdomainLookup(r.origin)

(* chat_routes.get_property_id_from_request(data) *)
ChatResolve(r, hasData) ==
    IF GetInt(r.query) # NULL THEN GetInt(r.query)
    ELSE IF GetInt(r.header) # NULL THEN GetInt(r.header)
    ELSE IF hasData /\ r.body # NULL /\ r.body # BAD THEN r.body
    ELSE IF r.claim # NULL THEN r.claim
    ELSE NULL

(* routes.auth_routes.get_property_id_from_request: first well-formed signal
   in the order header, query parameter, body, token claim, origin label *)
AuthResolve(r, hasData) ==
    IF GetInt(r.header) # NULL THEN {GetInt(r.header)}
    ELSE IF GetInt(r.query) # NULL THEN {GetInt(r.query)}
    ELSE IF hasData /\ r.body # NULL /\ r.body # BAD THEN {r.body}
    ELSE IF r.claim # NULL THEN {r.claim}
    ELSE SubdomainLookup(r.origin)

(* get_manager_dashboard(property_id): existence, ownership, then the
   figures; when the joined maintenance or task query raises, the fallback
   query has no property filter *)
get_manager_dashboard(r, pid) ==
    IF pid \notin PropertyIds THEN R(404, "", pid, {})
    ELSE IF is_property_manager(r.caller) /\ PropOwner[pid] # r.caller
         THEN R(403, "PROPERTY_ACCESS_DENIED", pid, {})
    ELSE IF r.fail
         THEN R(200, "", pid, {pid} \cup {MaintRequests[i].property_id : i \in RequestIds})
    ELSE R(200, "", pid, {pid})

(* GET /analytics/dashboard *)
get_dashboard_data(r) ==
    { IF is_property_manager(r.caller)
      THEN IF pid = NULL THEN R(200, "", NULL, {})
           ELSE get_manager_dashboard(r, pid)
      ELSE IF r.caller \in Staff
           (* get_staff_dashboard is called with one argument too many; the
              handler's except clause answers 200 with the empty dashboard *)
      THEN R(200, "", pid, {})
      ELSE R(200, "", pid, {TenantProperty[r.caller]})
      : pid \in AnalyticsResolve(r, FALSE) }

(* GET /analytics/financial-summary *)
get_financial_summary(r) ==
    { IF pid = NULL THEN R(400, "", NULL, {})
      ELSE IF pid \notin PropertyIds THEN R(404, "", pid, {})
      ELSE R(200, "", pid, {pid})
      : pid \in AnalyticsResolve(r, FALSE) }

(* GET /analytics/occupancy-report *)
get_occupancy_report(r) ==
    { IF pid = NULL THEN R(400, "", NULL, {})
      ELSE IF pid \notin PropertyIds THEN R(404, "", pid, {})
      ELSE R(200, "", pid, {pid})
      : pid \in AnalyticsResolve(r, FALSE) }

(* GET /properties/<property_id>/units *)
get_property_units(r) ==
    IF r.path \notin PropertyIds THEN R(404, "", r.path, {})
    ELSE R(200, "", r.path, {r.path})

(* GET /requests/<request_id> *)
get_request(r) ==
    IF r.path \notin RequestIds THEN R(404, "", NULL, {})
    ELSE IF r.caller \in Tenants /\ MaintRequests[r.path].tenant # r.caller
         THEN R(403, "", NULL, {})
    ELSE R(200, "", NULL, {MaintRequests[r.path].property_id})

(* get_chats where the tenant branch filters by the resolved property id
   instead of the tenant's own property *)
get_chats_resolved(r) ==
    LET pid == ChatResolve(r, FALSE) IN
    IF r.caller \in Tenants THEN R(200, "", pid, {pid} \cap PropertyIds)
    ELSE IF r.caller \in Managers
    THEN IF pid = NULL THEN R(400, "PROPERTY_CONTEXT_REQUIRED", NULL, {})
         ELSE IF pid \notin PropertyIds THEN R(404, "", pid, {})
         ELSE IF PropOwner[pid] # r.caller
              THEN R(403, "PROPERTY_ACCESS_DENIED", pid, {})
         ELSE R(200, "", pid, {pid})
    ELSE R(403, "", pid, {})

(* GET /chats/ *)
get_chats(r) ==
    LET pid == ChatResolve(r, FALSE) IN
    IF r.caller \in Tenants THEN R(200, "", pid, {TenantProperty[r.caller]})
    ELSE IF r.caller \in Managers
    THEN IF pid = NULL THEN R(400, "PROPERTY_CONTEXT_REQUIRED", NULL, {})
         ELSE IF pid \notin PropertyIds THEN R(404, "", pid, {})
         ELSE IF PropOwner[pid] # r.caller
              THEN R(403, "PROPERTY_ACCESS_DENIED", pid, {})
         ELSE R(200, "", pid, {pid})
    ELSE R(403, "", pid, {})

(* GET /chats/unread-count: a manager without a property id, with an unknown
   property or with a property of another owner gets 200 and a count of 0 *)
get_unread_count(r) ==
    LET pid == ChatResolve(r, FALSE) IN
    IF r.caller \in Tenants THEN R(200, "", pid, {TenantProperty[r.caller]})
    ELSE IF r.caller \in Managers
    THEN IF pid = NULL THEN R(200, "", NULL, {})
         ELSE IF pid \notin PropertyIds \/ PropOwner[pid] # r.caller
              THEN R(200, "", pid, {})
         ELSE R(200, "", pid, {pid})
    ELSE R(200, "", pid, {})

(* Document.property_id == property_id_filter, applied when the query
   parameter is present *)
DocFilter(r) ==
    IF GetInt(r.query) # NULL THEN {GetInt(r.query)} \cap PropertyIds
    ELSE PropertyIds

(* GET /documents/ *)
get_documents(r) ==
    IF r.caller \in Tenants
    THEN {R(200, "", GetInt(r.query), DocFilter(r) \cap {TenantProperty[r.caller]})}
    ELSE IF r.caller \in Staff
    THEN {R(200, "", GetInt(r.query), DocFilter(r))}
    ELSE { IF pid = NULL THEN R(400, "PROPERTY_CONTEXT_REQUIRED", NULL, {})
           ELSE IF pid \notin PropertyIds THEN R(404, "PROPERTY_NOT_FOUND", pid, {})
           ELSE IF PropOwner[pid] # r.caller
                THEN R(403, "PROPERTY_ACCESS_DENIED", pid, {})
           ELSE IF GetInt(r.query) # NULL /\ GetInt(r.query) # pid
                THEN R(400, "PROPERTY_MISMATCH", pid, {})
           ELSE R(200, "", pid, {pid})
           : pid \in AuthResolve(r, FALSE) }

(* GET /properties/ *)
get_properties(r) ==
    { IF pid = NULL THEN R(200, "", NULL, {})
      ELSE IF pid \notin PropertyIds THEN R(404, "", pid, {})
      ELSE IF PropOwner[pid] # r.caller
           THEN R(403, "PROPERTY_ACCESS_DENIED", pid, {})
      ELSE R(200, "", pid, {pid})
      : pid \in AuthResolve(r, FALSE) }

(* GET /manager/analytics?property=...: the owner's properties, narrowed to
   one id when the filter converts to an integer *)
get_manager_analytics(r) ==
    LET property_ids ==
            {p \in PropertyIds :
                /\ PropOwner[p] = r.caller
                /\ (r.query \notin {NULL, BAD} => p = r.query)}
    IN R(200, "", NULL, property_ids)

(* Requests: every combination of the five context signals for the
   handlers that resolve a property context, the path parameter for the
   handlers that take one *)
SignalRequests(h, callers, fails) ==
    [handler : {h}, caller : callers, query : QueryVals, header : HeaderVals,
     body : BodyVals, claim : ClaimVals, origin : OriginVals, path : {NULL},
     fail : fails]

PathRequests(h) ==
    [handler : {h}, caller : Principals, query : {NULL}, header : {NULL},
     body : {NULL}, claim : {NULL}, origin : {""}, path : PathVals,
     fail : {FALSE}]

Requests ==
    SignalRequests("get_dashboard_data", Principals, BOOLEAN) \cup
    SignalRequests("get_financial_summary", Principals, {FALSE}) \cup
    SignalRequests("get_occupancy_report", Principals, {FALSE}) \cup
    SignalRequests("get_chats", Principals, {FALSE}) \cup
    SignalRequests("get_unread_count", Principals, {FALSE}) \cup
    SignalRequests("get_documents", Principals, {FALSE}) \cup
    SignalRequests("get_properties", Principals, {FALSE}) \cup
    SignalRequests("get_manager_analytics", Managers, {FALSE}) \cup
    PathRequests("get_property_units") \cup
    PathRequests("get_request")

GuardInit ==
    /\ tenants = <<>>
    /\ tenant_units = {}
    /\ units = [u \in UnitIds |-> "vacant"]
    /\ today = 1
    /\ ticks = 0
    /\ served = 0
    /\ next_tenant_id = 1
    /\ next_tu_id = 1
    /\ last = Resp("none", 0, "", NULL, NULL, NULL)
    /\ procs = <<>>
    /\ tasks = <<>>
    /\ maintenance_requests = <<>>
    /\ req = NoReq
    /\ resp = NoResp

Receive ==
    /\ req = NoReq
    /\ \E r \in Requests : req' = r
    /\ UNCHANGED <<workVars, ledgerVars, procs, resp>>

GetDashboardData ==
    /\ req.handler = "get_dashboard_data"
    /\ resp = NoResp
    /\ \E x \in get_dashboard_data(req) : resp' = x
    /\ UNCHANGED <<workVars, ledgerVars, procs, req>>

GetFinancialSummary ==
    /\ req.handler = "get_financial_summary"
    /\ resp = NoResp
    /\ \E x \in get_financial_summary(req) : resp' = x
    /\ UNCHANGED <<workVars, ledgerVars, procs, req>>

GetOccupancyReport ==
    /\ req.handler = "get_occupancy_report"
    /\ resp = NoResp
    /\ \E x \in get_occupancy_report(req) : resp' = x
    /\ UNCHANGED <<workVars, ledgerVars, procs, req>>

GetPropertyUnits ==
    /\ req.handler = "get_property_units"
    /\ resp = NoResp
    /\ resp' = get_property_units(req)
    /\ UNCHANGED <<workVars, ledgerVars, procs, req>>

GetRequest ==
    /\ req.handler = "get_request"
    /\ resp = NoResp
    /\ resp' = get_request(req)
    /\ UNCHANGED <<workVars, ledgerVars, procs, req>>

GetChats ==
    /\ req.handler = "get_chats"
    /\ resp = NoResp
    /\ resp' = get_chats(req)
    /\ UNCHANGED <<workVars, ledgerVars, procs, req>>

GetUnreadCount ==
    /\ req.handler = "get_unread_count"
    /\ resp = NoResp
    /\ resp' = get_unread_count(req)
    /\ UNCHANGED <<workVars, ledgerVars, procs, req>>

GetDocuments ==
    /\ req.handler = "get_documents"
    /\ resp = NoResp
    /\ \E x \in get_documents(req) : resp' = x
    /\ UNCHANGED <<workVars, ledgerVars, procs, req>>

GetProperties ==
    /\ req.handler = "get_properties"
    /\ resp = NoResp
    /\ \E x \in get_properties(req) : resp' = x
    /\ UNCHANGED <<workVars, ledgerVars, procs, req>>

GetManagerAnalytics ==
    /\ req.handler = "get_manager_analytics"
    /\ resp = NoResp
    /\ resp' = get_manager_analytics(req)
    /\ UNCHANGED <<workVars, ledgerVars, procs, req>>

GuardNext ==
    \/ Receive
    \/ GetDashboardData
    \/ GetFinancialSummary
    \/ GetOccupancyReport
    \/ GetPropertyUnits
    \/ GetRequest
    \/ GetChats
    \/ GetUnreadCount
    \/ GetDocuments
    \/ GetProperties
    \/ GetManagerAnalytics

GuardSpec == GuardInit /\ [][GuardNext]_vars

----------------------------------------------------------------------------
(* Occupancy and revenue figures.  Amounts are whole currency units and a
   rate is held in hundredths of a percent (30.00 is 3000), so that the
   round(x, 2) of the handlers is exact integer arithmetic. *)

UnitsOf(props) == {u \in UnitIds : UnitProperty[u] \in props}

(* round(occupied_units / total_units * 100, 2), cut off instead of rounded *)
occupancy_rate_truncated(occupied_units, total_units) ==
    IF total_units > 0 THEN (occupied_units * 10000) \div total_units ELSE 0

(* round((occupied_units / total_units * 100), 2) if total_units > 0 else 0;
   Python rounds to the nearest value, an exact half to the even one *)
occupancy_rate(occupied_units, total_units) ==
    IF total_units > 0
    THEN LET n == occupied_units * 10000
             q == n \div total_units
             rem == n % total_units
         IN IF 2 * rem > total_units THEN q + 1
            ELSE IF 2 * rem < total_units THEN q
            ELSE IF q % 2 = 0 THEN q ELSE q + 1
    ELSE 0

(* TenantUnit.move_in_date.isnot(None) AND (TenantUnit.move_out_date.is_(None)
   OR TenantUnit.move_out_date >= today): the filter of the sub-domain
   dashboard and occupancy report *)
DashboardActive(r, d) ==
    /\ r.move_in_date # NULL
    /\ (r.move_out_date = NULL \/ r.move_out_date >= d)

(* len(db.session.query(Unit.id).join(TenantUnit).filter(...).distinct()) *)
dashboard_occupied_units(rows, p, d) ==
    Cardinality({u \in UnitsOf({p}) :
                    \E r \in rows : r.unit_id = u /\ DashboardActive(r, d)})

(* Fallback when the join raises: units whose status is occupied or rented *)
status_occupied_units(us, p) ==
    Cardinality({u \in UnitsOf({p}) : us[u] \in {"occupied", "rented"}})

(* Tenant.query.join(TenantUnit).join(Unit).filter(...).count(): one per
   joined row, so one per matching assignment *)
dashboard_active_tenants(rows, p, d) ==
    Cardinality({r \in rows : r.unit_id \in UnitsOf({p}) /\ DashboardActive(r, d)})

(* Fallback: the same join with the property filter only *)
fallback_active_tenants(rows, p) ==
    Cardinality({r \in rows : r.unit_id \in UnitsOf({p})})

(* (tu.move_out_date IS NULL OR tu.move_out_date > CURDATE()): the filter
   of the main-domain manager analytics *)
AnalyticsActive(r, d) == r.move_out_date = NULL \/ r.move_out_date > d

(* COUNT(DISTINCT CASE WHEN tu.id IS NOT NULL AND ... THEN u.id END) *)
analytics_occupied_units(rows, props, d) ==
    Cardinality({u \in UnitsOf(props) :
                    \E r \in rows : r.unit_id = u /\ AnalyticsActive(r, d)})

RECURSIVE SumRent(_)
(* SUM(tu.monthly_rent): NULL rents add nothing *)
SumRent(rows) ==
    IF rows = {} THEN 0
    ELSE LET r == CHOOSE x \in rows : TRUE
         IN r.monthly_rent + SumRent(rows \ {r})

(* COALESCE(SUM(tu.monthly_rent), 0) ... WHERE u.property_id IN :property_ids
   AND (tu.move_out_date IS NULL OR tu.move_out_date > CURDATE())
   AND tu.move_in_date <= NOW() *)
analytics_total_revenue(rows, props, d) ==
    SumRent({r \in rows : /\ r.unit_id \in UnitsOf(props)
                          /\ AnalyticsActive(r, d)
                          /\ r.move_in_date # NULL /\ r.move_in_date <= d})

(* The figures of one report request, read from the ledger as it stands.
   One report is taken per behaviour, after any sequence of ledger
   operations. *)
NoFigures ==
    [op |-> "none", props |-> {}, total_units |-> 0, occupied_units |-> 0,
     occupancy_rate |-> 0, active_tenants |-> 0, total_revenue |-> 0]

Figures(op, props, total, occupied, tenant_count, revenue) ==
    [op |-> op, props |-> props, total_units |-> total,
     occupied_units |-> occupied,
     occupancy_rate |-> occupancy_rate(occupied, total),
     active_tenants |-> tenant_count, total_revenue |-> revenue]

AggInit ==
    /\ tenants = <<>>
    /\ tenant_units = {}
    /\ units = [u \in UnitIds |-> "vacant"]
    /\ today = 1
    /\ ticks = 0
    /\ served = 0
    /\ next_tenant_id = 1
    /\ next_tu_id = 1
    /\ last = Resp("none", 0, "", NULL, NULL, NULL)
    /\ procs = <<>>
    /\ tasks = <<>>
    /\ maintenance_requests = <<>>
    /\ req = <<>>
    /\ resp = NoFigures

(* get_manager_dashboard (analytics_routes.py 240-370): unit and tenant
   figures; join_error is the failure of the TenantUnit join *)
ManagerDashboard(c, p, join_error) ==
    /\ resp = NoFigures
    /\ resp' =
         IF PropOwner[p] # c
           THEN [NoFigures EXCEPT !.op = "denied"]
         ELSE IF join_error
           THEN Figures("dashboard", {p}, Cardinality(UnitsOf({p})),
                        status_occupied_units(units, p),
                        fallback_active_tenants(tenant_units, p), 0)
         ELSE Figures("dashboard", {p}, Cardinality(UnitsOf({p})),
                      dashboard_occupied_units(tenant_units, p, today),
                      dashboard_active_tenants(tenant_units, p, today), 0)
    /\ UNCHANGED <<workVars, ledgerVars, procs, req>>

(* get_occupancy_report (analytics_routes.py 1108-1159) *)
OccupancyReport(p, join_error) ==
    /\ resp = NoFigures
    /\ resp' =
         IF join_error
           THEN Figures("occupancy_report", {p}, Cardinality(UnitsOf({p})),
                        status_occupied_units(units, p), 0, 0)
         ELSE Figures("occupancy_report", {p}, Cardinality(UnitsOf({p})),
                      dashboard_occupied_units(tenant_units, p, today), 0, 0)
    /\ UNCHANGED <<workVars, ledgerVars, procs, req>>

(* get_manager_analytics (manager_analytics.py 54-131): property_filter is
   NULL for 'all' *)
ManagerAnalytics(c, property_filter) ==
    /\ resp = NoFigures
    /\ LET property_ids ==
               {p \in PropertyIds :
                   /\ PropOwner[p] = c
                   /\ (property_filter # NULL => p = property_filter)}
       IN resp' =
            IF property_ids = {}
              THEN [NoFigures EXCEPT !.op = "manager_analytics"]
            ELSE Figures("manager_analytics", property_ids,
                         Cardinality(UnitsOf(property_ids)),
                         analytics_occupied_units(tenant_units, property_ids, today),
                         0,
                         analytics_total_revenue(tenant_units, property_ids, today))
    /\ UNCHANGED <<workVars, ledgerVars, procs, req>>

LedgerStep == resp = NoFigures /\ Next

AggNext ==
    \/ LedgerStep
    \/ \E c \in Managers, p \in PropertyIds, e \in BOOLEAN : ManagerDashboard(c, p, e)
    \/ \E p \in PropertyIds, e \in BOOLEAN : OccupancyReport(p, e)
    \/ \E c \in Managers, f \in PropertyIds \cup {NULL} : ManagerAnalytics(c, f)

AggSpec == AggInit /\ [][AggNext]_vars

(* The rate alone, over every pair of counts a property of up to
   MaxTotalUnits units can show *)
MaxTotalUnits == 10

RateInit ==
    /\ tenants = <<>>
    /\ tenant_units = {}
    /\ units = [u \in UnitIds |-> "vacant"]
    /\ today = 1
    /\ ticks = 0
    /\ served = 0
    /\ next_tenant_id = 1
    /\ next_tu_id = 1
    /\ last = Resp("none", 0, "", NULL, NULL, NULL)
    /\ procs = <<>>
    /\ tasks = <<>>
    /\ maintenance_requests = <<>>
    /\ \E total \in 0..MaxTotalUnits : \E occupied \in 0..total :
           req = [total_units |-> total, occupied_units |-> occupied]
    /\ resp = NoFigures

(* occupancy_rate = round(...) if total_units > 0 else 0, as the three
   report handlers compute it from their counts *)
ComputeRate ==
    /\ resp = NoFigures
    /\ resp' = Figures("occupancy_rate", {}, req.total_units,
                       req.occupied_units, 0, 0)
    /\ UNCHANGED <<workVars, ledgerVars, procs, req>>

RateNext == ComputeRate

RateSpec == RateInit /\ [][RateNext]_vars

(* The month windows of the manager analytics' monthly data.  Days are
   numbered from 1 = 1 January of a year of 365 days, over two such years. *)
MonthDays == <<31, 28, 31, 30, 31, 30, 31, 31, 30, 31, 30, 31>>
MaxMonth == 24
MinNow == 61
MaxNow == 425

RECURSIVE FirstDay(_)
(* Day number of the first day of month m, m counted from 1 *)
FirstDay(m) ==
    IF m = 1 THEN 1 ELSE FirstDay(m - 1) + MonthDays[((m - 2) % 12) + 1]

(* The month a day falls in *)
MonthOf(d) ==
    CHOOSE m \in 1..MaxMonth : FirstDay(m) <= d /\ d < FirstDay(m + 1)

(* month_date = datetime.utcnow() - timedelta(days=30 * (2 - i)) *)
month_date(now, i) == now - 30 * (2 - i)

(* month_start = month_date.replace(day=1, ...) *)
month_start(now, i) == FirstDay(MonthOf(month_date(now, i)))

(* month_end = utcnow() for the current month, otherwise
   (month_date + timedelta(days=32)).replace(day=1) - timedelta(days=1) *)
month_end(now, i) ==
    IF i = 2 THEN now
    ELSE FirstDay(MonthOf(month_date(now, i) + 32)) - 1

(* tu.move_in_date <= :month_end AND
   (tu.move_out_date IS NULL OR tu.move_out_date >= :month_start) *)
month_counts(move_in, move_out, mstart, mend) ==
    /\ move_in # NULL
    /\ move_in <= mend
    /\ (move_out = NULL \/ move_out >= mstart)

NoMonth == [op |-> "none", month |-> 0, month_start |-> 0, month_end |-> 0]

MonthInit ==
    /\ tenants = <<>>
    /\ tenant_units = {}
    /\ units = [u \in UnitIds |-> "vacant"]
    /\ today = 1
    /\ ticks = 0
    /\ served = 0
    /\ next_tenant_id = 1
    /\ next_tu_id = 1
    /\ last = Resp("none", 0, "", NULL, NULL, NULL)
    /\ procs = <<>>
    /\ tasks = <<>>
    /\ maintenance_requests = <<>>
    /\ \E now \in MinNow..MaxNow : \E i \in 0..2 : req = [now |-> now, i |-> i]
    /\ resp = NoMonth

(* One pass of the loop 'for i in range(3)' (manager_analytics.py 222-244):
   the month it labels and the window its revenue query is given *)
MonthWindow ==
    /\ resp = NoMonth
    /\ resp' = [op |-> "month",
                month |-> MonthOf(month_date(req.now, req.i)),
                month_start |-> month_start(req.now, req.i),
                month_end |-> month_end(req.now, req.i)]
    /\ UNCHANGED <<workVars, ledgerVars, procs, req>>

MonthNext == MonthWindow

MonthSpec == MonthInit /\ [][MonthNext]_vars

(* An assignment request followed at once by the lookup of the tenant's
   current assignment.  The request carries the dates and the rent the
   caller asks for; create_tenant reads none of them. *)
NoTrip ==
    [sent |-> FALSE, tenant |-> NULL, move_in_date |-> NULL,
     move_out_date |-> NULL, monthly_rent |-> NULL]

NoLookup ==
    [answered |-> FALSE, found |-> FALSE, move_in_date |-> NULL,
     move_out_date |-> NULL, monthly_rent |-> NULL]

RentInputs == {900, 1200}

TripInit ==
    /\ tenants = <<>>
    /\ tenant_units = {}
    /\ units = [u \in UnitIds |-> "vacant"]
    /\ today = 1
    /\ ticks = 0
    /\ served = 0
    /\ next_tenant_id = 1
    /\ next_tu_id = 1
    /\ last = Resp("none", 0, "", NULL, NULL, NULL)
    /\ procs = <<>>
    /\ tasks = <<>>
    /\ maintenance_requests = <<>>
    /\ req = NoTrip
    /\ resp = NoLookup

TripLedgerStep == req = NoTrip /\ Next

(* POST /tenants/ with unit_id and, in the body, move_in_date D1,
   move_out_date D2 and monthly_rent rent *)
TripAssign(c, pid, uid, D1, D2, rent) ==
    /\ req = NoTrip
    /\ create_tenant(c, pid, uid)
    /\ req' = [sent |-> TRUE, tenant |-> next_tenant_id, move_in_date |-> D1,
               move_out_date |-> D2, monthly_rent |-> rent]
    /\ UNCHANGED <<workVars, procs, resp>>

(* tenant.current_rent, read right after the successful request *)
TripLookup ==
    /\ req.sent
    /\ ~ resp.answered
    /\ last.op = "create_tenant" /\ last.status = 201 /\ last.tu # NULL
    /\ IF current_rent(tenant_units, req.tenant, today) = {}
         THEN resp' = [NoLookup EXCEPT !.answered = TRUE]
       ELSE \E r \in current_rent(tenant_units, req.tenant, today) :
              resp' = [answered |-> TRUE, found |-> TRUE,
                       move_in_date |-> r.move_in_date,
                       move_out_date |-> r.move_out_date,
                       monthly_rent |-> r.monthly_rent]
    /\ UNCHANGED <<workVars, ledgerVars, procs, req>>

TripNext ==
    \/ TripLedgerStep
    \/ \E c \in Callers, pid \in PropertyIds, uid \in UnitIds,
          D1 \in {today, today + 1}, D2 \in {today + LeaseDays, today + 2 * LeaseDays},
          rent \in RentInputs : TripAssign(c, pid, uid, D1, D2, rent)
    \/ TripLookup

TripSpec == TripInit /\ [][TripNext]_vars

(* Tasks and maintenance requests (task_routes.py, request_routes.py).  Each
   action is one request; the property id a handler resolves from the
   request is the parameter property_id.  The tables start with two tasks,
   one per property, and one pending request of tenant t1. *)
MaxWork == 1

MaxRequests == 2

(* Staff users and Staff.property_id, the property a staff profile is bound
   to: s1 has none, s2 is bound to property 1 *)
StaffUsers == {"s1", "s2"}

StaffBinding == ("s1" :> NULL) @@ ("s2" :> 1)

WorkCallers == Managers \cup Tenants \cup StaffUsers

(* users.id of each caller; 99 is the id of no user *)
UserId ==
    ("m1" :> 21) @@ ("m2" :> 22) @@ ("t1" :> 13) @@ ("s1" :> 11) @@ ("s2" :> 12)

UserIds == {UserId[c] : c \in WorkCallers}

TaskInputs == {1, 2, 3}

TaskData == [title : {ABSENT, 2}, assigned_to : {ABSENT, NULL, 11, 99}]

RequestData == [status : {"", "in_progress", "completed"},
                assigned_to : {ABSENT, NULL, 11}]

(* The dispatcher either delivers an event or raises *)
NotifyOutcomes == BOOLEAN

(* try: NotificationService.notify_...(...) except Exception as notif_error:
   logger.warning(...): whether the failure of a notification that was sent
   leaves the try block *)
notify_escapes_uncaught(sent, notify_fails) == sent /\ notify_fails

notify_escapes(sent, notify_fails) == FALSE

TaskProperty(t) == UnitProperty[t.unit_id]

WReq(op, caller, id, property_id, data, notify_fails) ==
    [op |-> op, caller |-> caller, id |-> id, property_id |-> property_id,
     data |-> data, notify_fails |-> notify_fails]

(* status and code of the response, the properties whose rows it returned
   or changed, whether a change was committed, whether a notification was
   sent *)
WR(status, code, scope, write, notified) ==
    [status |-> status, code |-> code, scope |-> scope, write |-> write,
     notified |-> notified]

NoWork == WR(0, "", {}, FALSE, FALSE)

(* A response that leaves both tables as they were; a rollback discards
   what the session held *)
WorkAnswer(r) ==
    /\ resp' = r
    /\ UNCHANGED <<tasks, maintenance_requests>>

WorkInit ==
    /\ tenants = <<>>
    /\ tenant_units = {}
    /\ units = [u \in UnitIds |-> "vacant"]
    /\ today = 1
    /\ ticks = 0
    /\ served = 0
    /\ next_tenant_id = 1
    /\ next_tu_id = 1
    /\ last = Resp("none", 0, "", NULL, NULL, NULL)
    /\ procs = <<>>
    /\ tasks = (1 :> [unit_id |-> 1, title |-> 1, assigned_to |-> NULL]) @@
               (2 :> [unit_id |-> 3, title |-> 1, assigned_to |-> 11])
    /\ maintenance_requests =
         (1 :> [tenant |-> "t1", unit_id |-> 1, property_id |-> 1,
                status |-> "pending", assigned_to |-> NULL])
    /\ req = WReq("none", "", NULL, NULL, <<>>, FALSE)
    /\ resp = NoWork

WorkStep ==
    /\ served < MaxWork
    /\ served' = served + 1
    /\ UNCHANGED <<tenants, tenant_units, units, today, ticks,
                   next_tenant_id, next_tu_id, last, procs>>

(* PUT /tasks/<task_id> *)
update_task(c, task_id, property_id, data, notify_fails) ==
    /\ WorkStep
    /\ req' = WReq("update_task", c, task_id, property_id, data, notify_fails)
    /\ IF task_id \notin DOMAIN tasks
         THEN WorkAnswer(WR(404, "", {}, FALSE, FALSE))
       ELSE IF c \in Tenants /\ tasks[task_id].assigned_to # UserId[c]
         THEN WorkAnswer(WR(403, "", {}, FALSE, FALSE))
       ELSE IF /\ c \in Managers
               /\ property_id # NULL
               /\ TaskProperty(tasks[task_id]) # property_id
         THEN WorkAnswer(WR(403, "PROPERTY_ACCESS_DENIED", {}, FALSE, FALSE))
       ELSE IF data.title = ABSENT /\ data.assigned_to = ABSENT
         THEN WorkAnswer(WR(400, "", {}, FALSE, FALSE))
       ELSE IF /\ c \notin Tenants
               /\ data.assigned_to \notin {ABSENT, NULL}
               /\ data.assigned_to \notin UserIds
         THEN WorkAnswer(WR(400, "", {}, FALSE, FALSE))
       ELSE LET old == tasks[task_id]
                full == c \notin Tenants
                new == [old EXCEPT
                          !.title = IF full /\ data.title # ABSENT
                                    THEN data.title ELSE @,
                          !.assigned_to = IF full /\ data.assigned_to # ABSENT
                                          THEN data.assigned_to ELSE @]
                sent_before == /\ full
                               /\ data.assigned_to \notin {ABSENT, NULL}
                               /\ new.assigned_to # old.assigned_to
                sent_after == new.assigned_to # NULL /\ data.title # ABSENT
            IN IF notify_escapes(sent_before, notify_fails)
                 THEN WorkAnswer(WR(500, "", {}, FALSE, TRUE))
               ELSE /\ tasks' = [tasks EXCEPT ![task_id] = new]
                    /\ UNCHANGED maintenance_requests
                    /\ resp' = WR(IF notify_escapes(sent_after, notify_fails)
                                  THEN 500 ELSE 200,
                                  "", {TaskProperty(old)}, TRUE,
                                  sent_before \/ sent_after)

(* DELETE /tasks/<task_id> *)
delete_task(c, task_id, property_id) ==
    /\ WorkStep
    /\ req' = WReq("delete_task", c, task_id, property_id, <<>>, FALSE)
    /\ IF c \in Tenants
         THEN WorkAnswer(WR(403, "", {}, FALSE, FALSE))
       ELSE IF task_id \notin DOMAIN tasks
         THEN WorkAnswer(WR(404, "", {}, FALSE, FALSE))
       ELSE IF /\ c \in Managers
               /\ property_id # NULL
               /\ TaskProperty(tasks[task_id]) # property_id
         THEN WorkAnswer(WR(403, "PROPERTY_ACCESS_DENIED", {}, FALSE, FALSE))
       ELSE /\ tasks' = [t \in DOMAIN tasks \ {task_id} |-> tasks[t]]
            /\ UNCHANGED maintenance_requests
            /\ resp' = WR(200, "", {TaskProperty(tasks[task_id])}, TRUE, FALSE)

(* POST /requests/: tenants only; the unit comes from the body, the property
   from the unit; both notifications follow the commit *)
create_request(c, unit_id, notify_fails) ==
    /\ WorkStep
    /\ Cardinality(DOMAIN maintenance_requests) < MaxRequests
    /\ req' = WReq("create_request", c, unit_id, NULL, <<>>, notify_fails)
    /\ IF c \notin Tenants
         THEN WorkAnswer(WR(404, "", {}, FALSE, FALSE))
       ELSE IF unit_id = NULL
         THEN WorkAnswer(WR(400, "", {}, FALSE, FALSE))
       ELSE IF unit_id \notin UnitIds
         THEN WorkAnswer(WR(404, "", {}, FALSE, FALSE))
       ELSE LET id == Cardinality(DOMAIN maintenance_requests) + 1 IN
            /\ maintenance_requests' = maintenance_requests @@
                 (id :> [tenant |-> c, unit_id |-> unit_id,
                         property_id |-> UnitProperty[unit_id],
                         status |-> "pending", assigned_to |-> NULL])
            /\ UNCHANGED tasks
            /\ resp' = WR(IF notify_escapes(TRUE, notify_fails)
                          THEN 500 ELSE 201,
                          "", {UnitProperty[unit_id]}, TRUE, TRUE)

(* PUT /requests/<request_id> *)
update_request(c, request_id, data, notify_fails) ==
    /\ WorkStep
    /\ req' = WReq("update_request", c, request_id, NULL, data, notify_fails)
    /\ IF request_id \notin DOMAIN maintenance_requests
         THEN WorkAnswer(WR(404, "", {}, FALSE, FALSE))
       ELSE IF c \in Tenants /\ maintenance_requests[request_id].tenant # c
         THEN WorkAnswer(WR(403, "", {}, FALSE, FALSE))
       ELSE IF c \in Tenants /\ maintenance_requests[request_id].status # "pending"
         THEN WorkAnswer(WR(400, "", {}, FALSE, FALSE))
       ELSE IF c \notin Tenants /\ c \notin Managers
         THEN WorkAnswer(WR(403, "", {}, FALSE, FALSE))
       ELSE IF /\ c \in Managers
               /\ PropOwner[maintenance_requests[request_id].property_id] # c
         THEN WorkAnswer(WR(403, "PROPERTY_ACCESS_DENIED", {}, FALSE, FALSE))
       ELSE LET old == maintenance_requests[request_id]
                full == c \in Managers
                status1 == IF full /\ data.status # "" THEN data.status
                           ELSE old.status
                assigned1 == IF /\ full
                                /\ data.status = "in_progress"
                                /\ old.assigned_to = NULL
                                /\ data.assigned_to \notin {ABSENT, NULL}
                             THEN data.assigned_to ELSE old.assigned_to
                assigned2 == IF full /\ data.assigned_to # ABSENT
                             THEN data.assigned_to ELSE assigned1
                status2 == IF /\ full
                              /\ data.assigned_to # ABSENT
                              /\ assigned2 # NULL
                              /\ status1 = "pending"
                           THEN "in_progress" ELSE status1
                sent_before == /\ full
                               /\ data.assigned_to # ABSENT
                               /\ assigned2 # NULL
                               /\ assigned2 # assigned1
                new == [old EXCEPT !.status = status2, !.assigned_to = assigned2]
            IN IF notify_escapes(sent_before, notify_fails)
                 THEN WorkAnswer(WR(500, "", {}, FALSE, TRUE))
               ELSE /\ maintenance_requests' =
                         [maintenance_requests EXCEPT ![request_id] = new]
                    /\ UNCHANGED tasks
                    /\ resp' = WR(IF notify_escapes(TRUE, notify_fails)
                                  THEN 500 ELSE 200,
                                  "", {old.property_id}, TRUE, TRUE)

(* GET /requests/ *)
get_requests(c, property_id) ==
    LET rows == {maintenance_requests[i] : i \in DOMAIN maintenance_requests}
        of(p) == {r.property_id : r \in {x \in rows : x.property_id = p}}
    IN
    /\ WorkStep
    /\ req' = WReq("get_requests", c, NULL, property_id, <<>>, FALSE)
    /\ IF c \in Tenants
         THEN WorkAnswer(WR(200, "",
                 {r.property_id : r \in
                     {x \in rows : /\ x.tenant = c
                                   /\ property_id # NULL
                                        => x.property_id = property_id}},
                 FALSE, FALSE))
       ELSE IF c \in Managers
         THEN IF property_id = NULL
                THEN WorkAnswer(WR(400, "PROPERTY_CONTEXT_REQUIRED", {}, FALSE, FALSE))
              ELSE IF property_id \notin PropertyIds
                THEN WorkAnswer(WR(404, "", {}, FALSE, FALSE))
              ELSE IF PropOwner[property_id] # c
                THEN WorkAnswer(WR(403, "PROPERTY_ACCESS_DENIED", {}, FALSE, FALSE))
              ELSE WorkAnswer(WR(200, "", of(property_id), FALSE, FALSE))
       ELSE IF property_id # NULL
         THEN WorkAnswer(WR(200, "", of(property_id), FALSE, FALSE))
       ELSE WorkAnswer(WR(200, "", {r.property_id : r \in rows}, FALSE, FALSE))

WorkNext ==
    \/ \E c \in WorkCallers, t \in TaskInputs, p \in {NULL} \cup PropertyIds,
          d \in TaskData, f \in NotifyOutcomes : update_task(c, t, p, d, f)
    \/ \E c \in WorkCallers, t \in TaskInputs, p \in {NULL} \cup PropertyIds :
          delete_task(c, t, p)
    \/ \E c \in WorkCallers, u \in {NULL} \cup UnitInputs, f \in NotifyOutcomes :
          create_request(c, u, f)
    \/ \E c \in WorkCallers, i \in 1..MaxRequests, d \in RequestData,
          f \in NotifyOutcomes : update_request(c, i, d, f)
    \/ \E c \in WorkCallers, p \in {NULL} \cup PropertyInputs : get_requests(c, p)

WorkSpec == WorkInit /\ [][WorkNext]_vars

(* One update_tenant request after any ledger history, with its caller kept
   next to the outcome *)
NoMove == [sent |-> FALSE, caller |-> "", tenant |-> NULL, property_id |-> NULL]

MoveInit ==
    /\ tenants = <<>>
    /\ tenant_units = {}
    /\ units = [u \in UnitIds |-> "vacant"]
    /\ today = 1
    /\ ticks = 0
    /\ served = 0
    /\ next_tenant_id = 1
    /\ next_tu_id = 1
    /\ last = Resp("none", 0, "", NULL, NULL, NULL)
    /\ procs = <<>>
    /\ tasks = <<>>
    /\ maintenance_requests = <<>>
    /\ req = NoMove
    /\ resp = <<>>

MoveLedgerStep == req = NoMove /\ Next

MoveUpdate(c, rp, t, dp, du) ==
    /\ req = NoMove
    /\ update_tenant(c, rp, t, dp, du)
    /\ req' = [sent |-> TRUE, caller |-> c, tenant |-> t, property_id |-> dp]
    /\ UNCHANGED <<procs, resp>>

MoveNext ==
    \/ MoveLedgerStep
    \/ \E c \in Callers, rp \in PropertyInputs \cup {NULL}, t \in 1..MaxTenants,
          dp \in PropertyInputs \cup {NULL}, du \in UnitArgs :
          MoveUpdate(c, rp, t, dp, du)

MoveSpec == MoveInit /\ [][MoveNext]_vars

----------------------------------------------------------------------------
(* Properties of the ledger *)

(* ACTIVE as of a date: move_in_date <= as-of AND
   (move_out_date IS NULL OR move_out_date >= as-of) *)
ACTIVE(r, d) ==
    /\ r.move_in_date # NULL
    /\ r.move_in_date <= d
    /\ (r.move_out_date = NULL \/ r.move_out_date >= d)

ActiveOn(rows, u, d) == {r \in rows : r.unit_id = u /\ ACTIVE(r, d)}

UnitIsVacant(u) == units[u] \in VacantStatuses

Quiescent == \A p \in ProcIds : procs[p].pc \in {"idle", "done"}

(* C1: two create_tenant requests that targeted the same vacant unit on the
   same day have both finished: exactly one of them succeeded (201), the other
   was refused as a conflict (400), and the unit has exactly one ACTIVE
   assignment. *)
C1_ExactlyOneAssignSucceeds ==
    \A p, q \in ProcIds :
        ( /\ p # q
          /\ procs[p].op = "create_tenant" /\ procs[q].op = "create_tenant"
          /\ procs[p].unit = procs[q].unit
          /\ procs[p].pc = "done" /\ procs[q].pc = "done"
          /\ \A r \in tenant_units : r.unit_id = procs[p].unit =>
                 /\ r.tenant_id \in {procs[p].tenant, procs[q].tenant}
                 /\ r.move_in_date = today )
        => /\ {procs[p].status, procs[q].status} = {201, 400}
           /\ Cardinality(ActiveOn(tenant_units, procs[p].unit, today)) = 1

(* C10: once a terminate_rent and the request it ran with have finished,
   the terminated assignment's unit is not marked vacant while an assignment
   that is ACTIVE and has not been ended exists for it. *)
C10_TerminateNeverVacatesOccupied ==
    \A p \in ProcIds :
        (procs[p].op = "terminate_rent" /\ Quiescent /\ UnitIsVacant(procs[p].exunit))
        => ~ \E r \in ActiveOn(tenant_units, procs[p].exunit, today) : r.is_active

(* C2: after any sequence of ledger operations every unit has at most one
   assignment that is ACTIVE today. *)
C2_AtMostOneActivePerUnit ==
    \A u \in UnitIds : Cardinality(ActiveOn(tenant_units, u, today)) <= 1

(* C9: when an assignment has just been ended (terminate_rent, or the
   unassign / reassign branch of update_tenant), its unit is vacant if and
   only if no other ACTIVE assignment remains for that unit. *)
C9_VacantIffNoOtherActive ==
    last.op \in {"terminate", "unassign", "reassign"} =>
        (UnitIsVacant(last.unit) <=>
            ~ \E r \in ActiveOn(tenant_units, last.unit, today) : r.id # last.tu)

----------------------------------------------------------------------------
(* Properties of the property context and the ownership checks *)

Answered == resp # NoResp

(* authorize(principal, propertyId) of the specification: a manager owns the
   property, a tenant is affiliated with it, staff without a property
   binding may read *)
GuardAllows(c, p) ==
    /\ p \in PropertyIds
    /\ c \in Managers => PropOwner[p] = c
    /\ c \in Tenants => TenantProperty[c] = p

(* The first well-formed signal in the order header, query parameter, body
   field, token claim, origin label *)
FirstSignal(r) ==
    IF GetInt(r.header) # NULL THEN {GetInt(r.header)}
    ELSE IF GetInt(r.query) # NULL THEN {GetInt(r.query)}
    ELSE IF GetInt(r.body) # NULL THEN {GetInt(r.body)}
    ELSE IF r.claim # NULL THEN {r.claim}
    ELSE SubdomainLookup(r.origin)

NoSignals(r) ==
    /\ r.query = NULL /\ r.header = NULL /\ r.body = NULL
    /\ r.claim = NULL /\ r.origin = ""

ContextHandlers ==
    {"get_dashboard_data", "get_financial_summary", "get_occupancy_report",
     "get_chats", "get_documents", "get_properties"}

(* C3: an operation of a manager that is scoped to a property the manager
   does not own is denied with PROPERTY_ACCESS_DENIED and returns no data,
   whichever signal produced the property id. *)
C3_NonOwnerManagerDenied ==
    ( /\ Answered
      /\ req.caller \in Managers
      /\ resp.property \in PropertyIds
      /\ PropOwner[resp.property] # req.caller )
    => /\ resp.status = 403
       /\ resp.code = "PROPERTY_ACCESS_DENIED"
       /\ resp.scope = {}

(* C4: whatever data an answered operation read belongs to a property for
   which the ownership guard allows the caller. *)
C4_DataOnlyAfterAllow ==
    Answered => \A p \in resp.scope : GuardAllows(req.caller, p)

(* C5: a property-scoped operation of a manager that carries none of the
   five context signals is rejected with PROPERTY_CONTEXT_REQUIRED. *)
C5_NoSignalsRejected ==
    ( /\ Answered
      /\ req.handler \in ContextHandlers
      /\ req.caller \in Managers
      /\ NoSignals(req) )
    => /\ resp.code = "PROPERTY_CONTEXT_REQUIRED"
       /\ resp.scope = {}

(* The case of C6: a tenant names, in the property_id query parameter, an
   existing property other than the one the tenant is affiliated with *)
TenantNamesOther ==
    /\ Answered
    /\ req.handler \in {"get_chats", "get_documents"}
    /\ req.caller \in Tenants
    /\ GetInt(req.query) \in PropertyIds \ {TenantProperty[req.caller]}

C7_AggregationScoped ==
    ( /\ Answered
      /\ req.handler \in {"get_dashboard_data", "get_manager_analytics"}
      /\ req.caller \in Managers
      /\ resp.status = 200 )
    => \A p \in resp.scope :
           /\ PropOwner[p] = req.caller
           /\ resp.property # NULL => p = resp.property

(* C8: the property id a handler resolved for a request without a body is
   the first well-formed signal in the order header, query parameter, body
   field, token claim, origin label. *)
C8_ResolverPrecedence ==
    ( /\ Answered
      /\ req.body = NULL
      /\ \/ req.handler \in {"get_dashboard_data", "get_financial_summary",
                             "get_occupancy_report"}
         \/ req.handler = "get_chats" /\ req.caller \in Managers )
    => resp.property \in FirstSignal(req)

----------------------------------------------------------------------------
(* Properties of the ledger, continued *)

(* The date range of assignment r meets the range of the new assignment n *)
Overlaps(r, n) ==
    /\ r.move_in_date # NULL
    /\ r.move_in_date <= n.move_out_date
    /\ (r.move_out_date = NULL \/ r.move_out_date >= n.move_in_date)

RowIds(rows) == {r.id : r \in rows}

(* C11: no step creates an assignment on a unit that already had an
   assignment whose range overlaps the new one; such an assign fails. *)
C11_AssignConflicts ==
    [][\A n \in tenant_units' :
           n.id \notin RowIds(tenant_units) =>
               ~ \E r \in tenant_units :
                     r.unit_id = n.unit_id /\ Overlaps(r, n)]_vars

(* C12: every decision of the code about whether an assignment is active
   today (the vacancy check and current_unit, which share one SQL predicate,
   and current_rent) agrees with the date predicate ACTIVE; the is_active
   flag never decides against it. *)
C12_SingleActivePredicate ==
    /\ \A r \in tenant_units : CodeActive(r, today) <=> ACTIVE(r, today)
    /\ \A t \in DOMAIN tenants :
           /\ \A u \in current_unit(tenant_units, t, today) :
                  u # NULL <=> \E r \in tenant_units :
                                   r.tenant_id = t /\ ACTIVE(r, today)
           /\ \A r \in current_rent(tenant_units, t, today) : ACTIVE(r, today)

(* C13: TERMINATED and EXPIRED are terminal: no step changes the
   rent_status of an assignment that is terminated or expired. *)
C13_TerminalStates ==
    [][\A r \in tenant_units : \A n \in tenant_units' :
           (n.id = r.id /\ r.rent_status \in {"terminated", "expired"})
               => n.rent_status = r.rent_status]_vars

(* C14: no step removes an assignment: every row of tenant_units is still
   present, under its id, after the step. *)
C14_NoHardDelete ==
    [][RowIds(tenant_units) \subseteq RowIds(tenant_units')]_vars

(* C15: every assignment's property_id equals the property of the unit it
   refers to. *)
C15_DenormalizedProperty ==
    \A r \in tenant_units : r.property_id = UnitProperty[r.unit_id]

(* A tenant was moved by update_tenant from a unit of property 1 to a unit
   of property 2 *)
C15_Witness ==
    /\ last.op = "reassign"
    /\ \E r, q \in tenant_units :
           /\ r.tenant_id = q.tenant_id
           /\ r.property_id = 1
           /\ q.property_id = 2
           /\ q.id > r.id

----------------------------------------------------------------------------
(* Properties of the figures *)

(* Distinct units of the properties with at least one assignment ACTIVE on
   day d *)
OccupiedUnits(rows, props, d) ==
    {u \in UnitsOf(props) : ActiveOn(rows, u, d) # {}}

Reported == resp.op \in {"dashboard", "occupancy_report", "manager_analytics"}

(* C16: the occupied_units a report returns for its properties is the
   number of their distinct units that have an assignment ACTIVE today. *)
C16_OccupiedUnits ==
    (Reported /\ resp.props # {}) =>
        resp.occupied_units =
            Cardinality(OccupiedUnits(tenant_units, resp.props, today))

(* C17: the rate is occupied / total * 100 to the nearest hundredth when
   total > 0 and 0 when total is 0; (10, 3) gives 30.00, (10, 4) 40.00. *)
C17_OccupancyRate ==
    resp.op = "occupancy_rate" =>
        LET total == req.total_units
            occupied == req.occupied_units
            rate == resp.occupancy_rate
            err == rate * total - occupied * 10000
        IN /\ total = 0 => rate = 0
           /\ total > 0 => (2 * err <= total /\ 2 * (0 - err) <= total)
           /\ (total = 10 /\ occupied = 3) => rate = 3000
           /\ (total = 10 /\ occupied = 4) => rate = 4000

C17_Witness ==
    /\ resp.op = "occupancy_rate"
    /\ req.total_units = 10
    /\ req.occupied_units = 3
    /\ resp.occupancy_rate = 3000

(* C18: the total_revenue the manager analytics returns is the sum of
   monthly_rent over exactly the assignments ACTIVE today on the units of
   its properties. *)
C18_TotalRevenue ==
    (resp.op = "manager_analytics" /\ resp.props # {}) =>
        resp.total_revenue =
            SumRent({r \in tenant_units :
                        r.unit_id \in UnitsOf(resp.props) /\ ACTIVE(r, today)})

(* C19: the active_tenants the dashboard returns for a property is the
   number of distinct tenant ids among the assignments ACTIVE today on its
   units. *)
C19_DistinctTenantCount ==
    resp.op = "dashboard" =>
        resp.active_tenants =
            Cardinality({r.tenant_id : r \in
                {x \in tenant_units :
                    x.unit_id \in UnitsOf(resp.props) /\ ACTIVE(x, today)}})

(* C20: for a past month M labelled by the monthly data, an assignment
   counts towards the revenue of M iff move_in <= end(M) and (move_out is
   null or move_out >= start(M)), start(M) and end(M) being the first and
   the last day of M. *)
C20_HistoricalMonth ==
    (resp.op = "month" /\ req.i < 2) =>
        LET startM == FirstDay(resp.month)
            endM == FirstDay(resp.month + 1) - 1
        IN \A move_in \in (startM - 1)..(startM + 62) :
           \A move_out \in {NULL, startM - 1, startM, startM + 62} :
               month_counts(move_in, move_out, resp.month_start, resp.month_end)
                   <=> /\ move_in <= endM
                       /\ (move_out = NULL \/ move_out >= startM)

----------------------------------------------------------------------------
(* Properties of the ledger operations, continued *)

(* C21: the lookup that follows a successful assign with move-in D1,
   move-out D2 and rent R returns an assignment with these three values. *)
C21_AssignLookupRoundTrip ==
    resp.answered =>
        /\ resp.found
        /\ resp.move_in_date = req.move_in_date
        /\ resp.move_out_date = req.move_out_date
        /\ resp.monthly_rent = req.monthly_rent

(* C22: a renewal leaves the assignment ACTIVE with the move-out date it was
   given, and that date is later than the move-out date the assignment had
   before: a renewal never shortens the lease. *)
C22_RenewExtends ==
    [][\A r \in tenant_units : \A n \in tenant_units' :
           (/\ served' = served + 1
            /\ last'.op = "renew"
            /\ last'.tu = r.id
            /\ n.id = r.id)
               => /\ ACTIVE(n, today)
                  /\ r.move_out_date # NULL => n.move_out_date > r.move_out_date]_vars

----------------------------------------------------------------------------
(* Properties of the guard's error contract *)

(* The property an answered request of a manager was checked against: the
   filter of get_manager_analytics, the resolved id elsewhere *)
CheckedProperty ==
    IF req.handler = "get_manager_analytics" THEN GetInt(req.query)
    ELSE resp.property

(* The handler's ownership check failed: the manager does not own the
   property and the handler read nothing *)
FailedOwnership ==
    /\ Answered
    /\ req.caller \in Managers
    /\ CheckedProperty \in PropertyIds
    /\ PropOwner[CheckedProperty] # req.caller
    /\ resp.scope = {}

(* C23: a failed ownership check is answered with an error carrying
   PROPERTY_ACCESS_DENIED, never with a successful response. *)
C23_DenialSurfaced ==
    FailedOwnership =>
        /\ resp.status # 200
        /\ resp.code = "PROPERTY_ACCESS_DENIED"

(* The well-formed property ids a request supplies explicitly *)
ExplicitIds(r) == {GetInt(r.header), GetInt(r.query)} \ {NULL}

(* An explicit id and the token claim name two different existing
   properties, and the guard would allow the caller on either, so that no
   other error code applies *)
ExplicitConflict ==
    /\ Answered
    /\ req.handler \in ContextHandlers \cup {"get_unread_count"}
    /\ req.claim \in PropertyIds
    /\ GuardAllows(req.caller, req.claim)
    /\ \E e \in ExplicitIds(req) :
          e \in PropertyIds /\ e # req.claim /\ GuardAllows(req.caller, e)

(* C24: a request whose explicit property id differs from the property of
   its token claim is rejected with PROPERTY_MISMATCH. *)
C24_ExplicitMismatchRejected ==
    ExplicitConflict => resp.code = "PROPERTY_MISMATCH"

(* C25: a request of a manager whose resolved property id names no
   property is rejected with PROPERTY_NOT_FOUND, and nothing is read. *)
C25_UnknownPropertyNotFound ==
    ( /\ Answered
      /\ req.caller \in Managers
      /\ resp.property # NULL
      /\ resp.property \notin PropertyIds )
    => /\ resp.status = 404
       /\ resp.code = "PROPERTY_NOT_FOUND"
       /\ resp.scope = {}

----------------------------------------------------------------------------
(* Properties of the task and request handlers *)

Succeeded == resp.status \in {200, 201}

(* C26: a staff user bound to a property reads and writes rows of that
   property only; a staff user without a binding never gets a write
   through. *)
C26_StaffBinding ==
    (Succeeded /\ req.caller \in StaffUsers) =>
        IF StaffBinding[req.caller] # NULL
        THEN resp.scope \subseteq {StaffBinding[req.caller]}
        ELSE ~ resp.write

(* The change the request asked for is in the table *)
MutationCommitted ==
    CASE req.op = "update_task" ->
           /\ req.id \in DOMAIN tasks
           /\ req.caller \notin Tenants =>
                /\ req.data.title # ABSENT
                     => tasks[req.id].title = req.data.title
                /\ req.data.assigned_to # ABSENT
                     => tasks[req.id].assigned_to = req.data.assigned_to
      [] req.op = "create_request" ->
           \E i \in DOMAIN maintenance_requests :
              /\ i = Cardinality(DOMAIN maintenance_requests)
              /\ maintenance_requests[i].tenant = req.caller
              /\ maintenance_requests[i].unit_id = req.id
              /\ maintenance_requests[i].status = "pending"
      [] req.op = "update_request" ->
           /\ req.id \in DOMAIN maintenance_requests
           /\ req.caller \in Managers =>
                /\ req.data.status # ""
                     => maintenance_requests[req.id].status = req.data.status
                /\ req.data.assigned_to # ABSENT
                     => maintenance_requests[req.id].assigned_to
                            = req.data.assigned_to
      [] OTHER -> FALSE

----------------------------------------------------------------------------
(* Properties of the resolver's origin label *)

(* An answered analytics request whose property came from the origin label:
   no query parameter, header or claim was usable *)
OriginDecides ==
    /\ Answered
    /\ req.handler \in {"get_dashboard_data", "get_financial_summary",
                        "get_occupancy_report"}
    /\ GetInt(req.query) = NULL
    /\ GetInt(req.header) = NULL
    /\ req.claim = NULL
    /\ resp.property \in PropertyIds

(* C28: a label resolves to one property: the property the request was
   answered for is the only one the lookup can return for that label. *)
C28_OriginDeterministic ==
    OriginDecides => SubdomainLookup(req.origin) = {resp.property}

----------------------------------------------------------------------------
(* Properties of the unit status and of the tenant's property *)

(* C29: after any sequence of ledger operations and tenant deletions made
   on one day, a unit is occupied exactly when it has an ACTIVE assignment
   and vacant exactly when it has none. *)
C29_StatusMatchesLedger ==
    ticks = 0 =>
        \A u \in UnitIds :
            /\ units[u] = "occupied" <=> ActiveOn(tenant_units, u, today) # {}
            /\ UnitIsVacant(u) <=> ActiveOn(tenant_units, u, today) = {}

(* C30: after a successful update_tenant by a manager, the tenant's
   property is one this manager owns. *)
C30_ManagerMovesWithinOwn ==
    ( /\ req.sent
      /\ req.caller \in Managers
      /\ last.status = 200
      /\ req.tenant \in DOMAIN tenants )
    => PropOwner[tenants[req.tenant]] = req.caller

============================================================================
